---- MODULE Spec2Model ----
(***************************************************************************)
(* IT-Operations-Agent: the tool-dispatch loop (monitor_containers,        *)
(* ask_monitoring_agent), the healing retry algorithm                      *)
(* (restart_container_with_retry), the alert routing                       *)
(* (send_container_down_alert) and the orchestrator cycles.                *)
(***************************************************************************)
EXTENDS Integers, Sequences, FiniteSets, Bags, TLC

(***************************************************************************)
(* Bounds of the model.                                                    *)
(***************************************************************************)
\* largest max_iterations / max_tool_calls argument tried
MaxIter == 2
\* most tool calls the Decision Engine puts in one response
MaxCalls == 2
\* most tool requests of one diagnosis call made from the orchestrator
MaxDiagCalls == 1
\* monitoring cycles a continuous run is followed for
MaxCycles == 2

\* containers on the host of the health check taken on its own
MaxHost == 3

(***************************************************************************)
(* Program constants.                                                      *)
(***************************************************************************)
MAX_RESTART_ATTEMPTS == 3

CRITICAL_SERVICES == {"prod-web-01", "prod-db-01"}

\* the managed containers of the Docker host (all carry the label)
Containers == <<"prod-web-01", "dev-cache-01">>

ContainerNames == {Containers[i] : i \in 1..Len(Containers)}

\* config.ALERT_LEVELS[level]["send_email"]
ALERT_LEVELS ==
    [INFO |-> [send_email |-> FALSE],
     WARNING |-> [send_email |-> TRUE],
     CRITICAL |-> [send_email |-> TRUE],
     SUCCESS |-> [send_email |-> FALSE]]

\* faulty variant of DOCKER_TOOL_MAP: the restart tool is registered too
DOCKER_TOOL_MAP_WithRestart ==
    {"list_all_containers", "list_running_containers", "get_container_status",
     "get_container_logs", "check_unhealthy_containers",
     "restart_container_with_retry"}

\* docker_monitoring_agent.TOOL_MAP: the names of its TOOLS
DOCKER_TOOL_MAP ==
    {"list_all_containers", "list_running_containers", "get_container_status",
     "get_container_logs", "check_unhealthy_containers"}

\* monitoring_agent.TOOL_MAP
SERVER_TOOL_MAP ==
    {"get_server_status", "get_server_logs", "list_running_servers",
     "get_server_metrics"}

\* incident_response_agent.TOOL_MAP
INCIDENT_TOOL_MAP == {"restart_container_with_retry", "check_container_health_status"}

TOOL_MAP(a) == IF a = "docker" THEN DOCKER_TOOL_MAP ELSE SERVER_TOOL_MAP

\* tool names the Decision Engine is let to request from each agent: one of
\* the agent's own tools and one that is registered only with the incident
\* response agent
RequestNames(a) ==
    IF a = "docker" THEN {"get_container_logs", "restart_container_with_retry"}
    ELSE {"get_server_status", "restart_container_with_retry"}

\* texts the Decision Engine answers with (sequences of characters)
Texts == {<<"o", "k">>, <<" ", "o", "k", " ">>}

(***************************************************************************)
(* Pure helpers.                                                           *)
(***************************************************************************)
Range(s) == {s[i] : i \in 1..Len(s)}

BoundedSeq(S, n) == UNION {[1..k -> S] : k \in 0..n}

IsSpace(c) == c = " "

RECURSIVE LStrip(_)
LStrip(s) == IF s # <<>> /\ IsSpace(Head(s)) THEN LStrip(Tail(s)) ELSE s

RECURSIVE RStrip(_)
RStrip(s) ==
    IF s # <<>> /\ IsSpace(s[Len(s)]) THEN RStrip(SubSeq(s, 1, Len(s) - 1)) ELSE s

\* faulty variant of Strip: only the leading whitespace goes
StripLeadingOnly(s) == LStrip(s)

\* str.strip()
Strip(s) == RStrip(LStrip(s))

\* list.insert(i, x) of Python, 0-based i, negative i counted from the end,
\* out-of-range i clamped
ListInsert(s, i, x) ==
    LET j == IF i < 0 THEN i + Len(s) ELSE i
        k == IF j < 0 THEN 0 ELSE IF j > Len(s) THEN Len(s) ELSE j
    IN  SubSeq(s, 1, k) \o <<x>> \o SubSeq(s, k + 1, Len(s))

VARIABLES
    \* ---- tool-dispatch loop ----
    agent,          \* "docker" (monitor_containers), "server" (ask_monitoring_agent), "none"
    max_iterations, \* the max_iterations / max_tool_calls argument
    lpc,            \* position in the loop
    messages,       \* the transcript
    iteration,      \* loop rounds completed
    ai,             \* the engine response of the current round
    callIdx,        \* 1-based index of the next tool call of ai to dispatch
    engineCalls,    \* llm.invoke calls made by this invocation
    dispatches,     \* tool calls handled by this invocation
    answer,         \* the returned string
    \* ---- Docker adapter ----
    status,         \* container name -> "running" | "exited"
    restartCalls,   \* container.restart calls made
    \* ---- orchestrator ----
    mode,           \* "check" | "heal" | "none"
    continuous,     \* --continuous
    opc,            \* position in the orchestrator
    cycle_count,
    health,         \* the snapshot of the current cycle
    idx,            \* 1-based index into health.stopped_containers
    diagStep,       \* diagnosis calls made for the current container
    diagRequested,  \* tool names the engine requested in those calls
    diagFailed,     \* the monitor_containers call just made raised
    interrupted,    \* Ctrl+C has arrived
    \* ---- restart_container_with_retry ----
    attempt,        \* the loop variable
    healRestarts,   \* restart calls of the current incident
    heal_result,    \* the returned dict
    attemptLog,     \* what each restart attempt of the incident did, in order
    \* ---- alert manager ----
    alerts,         \* send_container_down_alert calls of the cycle, in order
    emailCalls,     \* send_email_alert calls of the cycle
    transmitted,    \* bag of the dedup keys of the alerts delivered, all cycles
    \* ---- Docker host, for the health check taken on its own ----
    host            \* what client.containers.list(all=True) returns

loopVars == <<agent, max_iterations, lpc, messages, iteration, ai, callIdx,
              engineCalls, dispatches, answer>>
dockerVars == <<status, restartCalls>>
orchVars == <<mode, continuous, opc, cycle_count, health, idx, diagStep,
              diagRequested, diagFailed, interrupted>>
healVars == <<attempt, healRestarts, heal_result, attemptLog>>
alertVars == <<alerts, emailCalls, transmitted>>

vars == <<agent, max_iterations, lpc, messages, iteration, ai, callIdx,
          engineCalls, dispatches, answer, status, restartCalls, mode,
          continuous, opc, cycle_count, health, idx, diagStep, diagRequested,
          diagFailed, interrupted,
          attempt,
          healRestarts, heal_result, attemptLog, alerts, emailCalls, transmitted,
          host>>

(***************************************************************************)
(* Transcript entries.                                                     *)
(***************************************************************************)
HumanMessage == [type |-> "human", content |-> <<"q">>, tool_calls |-> <<>>,
                 tool_call_id |-> 0, error |-> <<>>]

\* an engine response: content and the tool calls it carries
AIMessage(content, calls) ==
    [type |-> "ai", content |-> content, tool_calls |-> calls,
     tool_call_id |-> 0, error |-> <<>>]

\* faulty variant of ToolMessage: the correlation id is not passed on
ToolMessageNoId(tool_out, id) ==
    [type |-> "tool", content |-> tool_out.content, tool_calls |-> <<>>,
     tool_call_id |-> 0, error |-> tool_out.error]

\* ToolMessage(content=json.dumps(tool_out), tool_call_id=...)
ToolMessage(tool_out, id) ==
    [type |-> "tool", content |-> tool_out.content, tool_calls |-> <<>>,
     tool_call_id |-> id, error |-> tool_out.error]

NoAi == AIMessage(<<>>, <<>>)

NoAnswer == <<"<none>">>

\* the correlation ids the engine gives the calls of its n-th response
CallId(n, i) == (n - 1) * (MaxCalls + 1) + i

\* the tool-call lists the engine can put in its n-th response
ToolCallLists(a, n) ==
    {[i \in 1..Len(names) |-> [name |-> names[i], id |-> CallId(n, i)]] :
        names \in BoundedSeq(RequestNames(a), MaxCalls) \ {<<>>}}

\* faulty variant of UnknownToolOut: an unknown tool answered without an error
UnknownToolOutSilent(tool_name) == [content |-> <<"result", tool_name>>, error |-> <<>>]

\* {"error": f"Unknown tool: {tool_name}"}
UnknownToolOut(tool_name) ==
    [content |-> <<>>, error |-> <<"Unknown tool: ", tool_name>>]

\* faulty variant of ExceptionOut: the exception is swallowed without a trace
ExceptionOutSwallowed(tool_name) == [content |-> <<>>, error |-> <<>>]

\* {"error": str(e)}
ExceptionOut(tool_name) == [content |-> <<>>, error |-> <<"exception in ", tool_name>>]

\* the value a tool handler returns
HandlerOut(tool_name) == [content |-> <<"result", tool_name>>, error |-> <<>>]

(***************************************************************************)
(* The tool-dispatch loop: monitor_containers (agent = "docker") and       *)
(* ask_monitoring_agent (agent = "server"), the same loop over two tool    *)
(* registries.                                                             *)
(***************************************************************************)

\* the state of the Docker host as one value
Docker == [status |-> status, restartCalls |-> restartCalls]

\* what invoking a registered tool can do to the Docker host d: only
\* restart_container_with_retry restarts containers, every other tool reads
ToolEffect(tool_name, d) ==
    IF tool_name = "restart_container_with_retry"
    THEN {[status |-> [d.status EXCEPT ![c] = s], restartCalls |-> d.restartCalls + 1] :
            c \in ContainerNames, s \in {"running", "exited"}}
    ELSE {d}

\* faulty variant of AiInsertIndex: one position too late
AiInsertIndexOffByOne(n) == -n + 1

\* messages.insert(-len(ai.tool_calls), ai): the index given to insert
AiInsertIndex(n) == -n

\* faulty variant of RangeHasNext: one round too many
RangeHasNextInclusive(it, max) == it <= max

\* for iteration in range(max_iterations): is there another round
RangeHasNext(it, max) == it < max

\* the responses the engine can give to its n-th call in the loop: a text
\* without tool calls, or tool calls (with empty content)
Responses(a, n) ==
    {AIMessage(text, <<>>) : text \in Texts}
        \cup {AIMessage(<<>>, calls) : calls \in ToolCallLists(a, n)}

\* faulty variant of WantsTools: the direct answer is never taken
WantsToolsAlways(response) == TRUE

\* the negation of "not getattr(ai, 'tool_calls', None)"
WantsTools(response) == response.tool_calls # <<>>

\* faulty variant of EngineFailurePc: the failed call is tried again
EngineFailureRetried == "invoke"

\* where a failed llm.invoke leaves the function: nothing catches the exception
EngineFailurePc == "raised"

\* ai = llm.invoke(messages) inside the loop, and the test on ai.tool_calls
LlmInvoke ==
    /\ lpc = "invoke"
    /\ engineCalls' = engineCalls + 1
    /\ \/ \* the engine call fails: the exception leaves the function
          /\ lpc' = EngineFailurePc
          /\ UNCHANGED <<ai, callIdx, answer>>
       \/ \E response \in Responses(agent, engineCalls + 1) :
             /\ ai' = response
             /\ IF ~WantsTools(response)
                THEN \* no tool calls: return ai.content.strip()
                     /\ answer' = Strip(response.content)
                     /\ lpc' = "returned"
                     /\ UNCHANGED callIdx
                ELSE \* tool calls requested
                     /\ callIdx' = 1
                     /\ lpc' = "tools"
                     /\ UNCHANGED answer
    /\ UNCHANGED <<agent, max_iterations, messages, iteration, dispatches>>
    /\ UNCHANGED <<host, dockerVars, orchVars, healVars, alertVars>>

\* one pass of "for call in ai.tool_calls": look the tool up, invoke it,
\* append the ToolMessage
DispatchTool ==
    /\ lpc = "tools"
    /\ callIdx <= Len(ai.tool_calls)
    /\ LET call == ai.tool_calls[callIdx]
       IN  IF call.name \notin TOOL_MAP(agent)
           THEN /\ messages' =
                      Append(messages, ToolMessage(UnknownToolOut(call.name), call.id))
                /\ UNCHANGED dockerVars
           ELSE \/ \* the handler returns
                   /\ messages' =
                         Append(messages, ToolMessage(HandlerOut(call.name), call.id))
                   /\ \E d \in ToolEffect(call.name, Docker) :
                         /\ status' = d.status
                         /\ restartCalls' = d.restartCalls
                \/ \* the handler raises: except Exception as e
                   /\ messages' =
                         Append(messages, ToolMessage(ExceptionOut(call.name), call.id))
                   /\ UNCHANGED dockerVars
    /\ callIdx' = callIdx + 1
    /\ dispatches' = dispatches + 1
    /\ UNCHANGED <<agent, max_iterations, lpc, iteration, ai, engineCalls, answer>>
    /\ UNCHANGED <<host, orchVars, healVars, alertVars>>

\* messages.insert(-len(ai.tool_calls), ai), then the next round or the exit
\* of the for loop
InsertAi ==
    /\ lpc = "tools"
    /\ callIdx > Len(ai.tool_calls)
    /\ messages' = ListInsert(messages, AiInsertIndex(Len(ai.tool_calls)), ai)
    /\ iteration' = iteration + 1
    /\ lpc' = IF RangeHasNext(iteration + 1, max_iterations) THEN "invoke" ELSE "final"
    /\ UNCHANGED <<agent, max_iterations, ai, callIdx, engineCalls, dispatches, answer>>
    /\ UNCHANGED <<host, dockerVars, orchVars, healVars, alertVars>>

\* final = llm.invoke(messages); return final.content.strip()
FinalInvoke ==
    /\ lpc = "final"
    /\ engineCalls' = engineCalls + 1
    /\ \/ /\ lpc' = EngineFailurePc
          /\ UNCHANGED <<ai, answer>>
       \/ \E text \in Texts, calls \in ToolCallLists(agent, engineCalls + 1) \cup {<<>>} :
             /\ ai' = AIMessage(text, calls)
             /\ answer' = Strip(text)
             /\ lpc' = "returned"
    /\ UNCHANGED <<agent, max_iterations, messages, iteration, callIdx, dispatches>>
    /\ UNCHANGED <<host, dockerVars, orchVars, healVars, alertVars>>

NoHealResult == [success |-> FALSE, error |-> "<none>", attempts |-> -1,
                 has_attempts |-> FALSE, old_status |-> "<none>",
                 new_status |-> "<none>"]

NoHealth == [total |-> 0, running |-> 0, stopped |-> 0,
             running_containers |-> <<>>, stopped_containers |-> <<>>,
             all_healthy |-> TRUE]

\* one call of monitor_containers / ask_monitoring_agent with a question
InitLoop ==
    /\ agent \in {"docker", "server"}
    /\ max_iterations \in 1..MaxIter
    /\ lpc = "invoke"
    /\ messages = <<HumanMessage>>
    /\ iteration = 0
    /\ ai = NoAi
    /\ callIdx = 1
    /\ engineCalls = 0
    /\ dispatches = 0
    /\ answer = NoAnswer
    /\ status = [c \in ContainerNames |-> "exited"]
    /\ restartCalls = 0
    /\ mode = "none"
    /\ continuous = FALSE
    /\ opc = "none"
    /\ cycle_count = 0
    /\ health = NoHealth
    /\ idx = 0
    /\ diagStep = 0
    /\ diagRequested = {}
    /\ diagFailed = FALSE
    /\ interrupted = FALSE
    /\ attempt = 0
    /\ healRestarts = 0
    /\ heal_result = NoHealResult
    /\ attemptLog = <<>>
    /\ alerts = <<>>
    /\ emailCalls = 0
    /\ transmitted = EmptyBag
    /\ host = <<>>

NextLoop == LlmInvoke \/ DispatchTool \/ InsertAi \/ FinalInvoke

SpecLoop == InitLoop /\ [][NextLoop]_vars

(***************************************************************************)
(* Claims about the tool-dispatch loop.                                    *)
(***************************************************************************)

\* the entry at position p is a tool result
IsTool(p) == p \in 1..Len(messages) /\ messages[p].type = "tool"

\* the model message at p is followed at once, in call order, by exactly its
\* own results
FollowedByOwnResults(p) ==
    LET n == Len(messages[p].tool_calls)
    IN  /\ p + n <= Len(messages)
        /\ \A i \in 1..n :
              /\ messages[p + i].type = "tool"
              /\ messages[p + i].tool_call_id = messages[p].tool_calls[i].id
        /\ ~IsTool(p + n + 1)

\* the tool result at q belongs to a model message before it
HasRequester(q) ==
    \E p \in 1..(q - 1) :
        /\ messages[p].type = "ai"
        /\ q - p <= Len(messages[p].tool_calls)
        /\ messages[p].tool_calls[q - p].id = messages[q].tool_call_id

TranscriptOrdered ==
    /\ \A p \in 1..Len(messages) : messages[p].type = "ai" => FollowedByOwnResults(p)
    /\ \A q \in 1..Len(messages) : messages[q].type = "tool" => HasRequester(q)

\* C1: whenever the transcript is handed to the Decision Engine (in the loop
\* or for the final call) and when the loop has returned, every model message
\* with N tool calls is immediately followed, in call order, by exactly its N
\* tool results, and every tool result comes after the model message that
\* requested it.
C1_TranscriptOrdering ==
    lpc \in {"invoke", "final", "returned"} => TranscriptOrdered

\* a transcript with two rounds, one of them with two tool calls, is handed over
C1_Witness ==
    /\ lpc \in {"invoke", "final"}
    /\ iteration = 2
    /\ \E p \in 1..Len(messages) :
          messages[p].type = "ai" /\ Len(messages[p].tool_calls) = 2

\* C2: one invocation of the loop calls the Decision Engine at most
\* max_iterations + 1 times, whatever the engine answers.
C2_EngineCallBound == engineCalls <= max_iterations + 1

\* the engine asked for tools in every round and the final call was made
C2_Witness ==
    /\ lpc = "returned"
    /\ max_iterations = 2
    /\ engineCalls = max_iterations + 1
    /\ iteration = max_iterations

\* a tool call whose name is not registered is about to be dispatched
UnknownPending ==
    /\ lpc = "tools"
    /\ callIdx <= Len(ai.tool_calls)
    /\ ai.tool_calls[callIdx].name \notin TOOL_MAP(agent)

\* C10: dispatching an unregistered tool name does not raise: the step appends
\* a tool result carrying the call's id and an error naming the tool, and the
\* loop stays in the round (remaining calls, then the next engine call).
C10_UnknownToolIsolated ==
    [][UnknownPending =>
         /\ lpc' = "tools"
         /\ callIdx' = callIdx + 1
         /\ Len(messages') = Len(messages) + 1
         /\ SubSeq(messages', 1, Len(messages)) = messages
         /\ LET m == messages'[Len(messages')]
                call == ai.tool_calls[callIdx]
            IN  /\ m.type = "tool"
                /\ m.tool_call_id = call.id
                /\ m.error = <<"Unknown tool: ", call.name>>
                /\ m.content = <<>>]_vars

\* an unknown tool was answered with an error, a later call of the same round
\* was dispatched, and the engine is called again
C10_Witness ==
    /\ lpc = "invoke"
    /\ \E q \in 1..(Len(messages) - 1) :
          /\ messages[q].type = "tool"
          /\ messages[q].error # <<>>
          /\ messages[q].error[1] = "Unknown tool: "
          /\ messages[q + 1].type = "tool"

(***************************************************************************)
(* Health snapshot: check_container_health_status / get_health_status.     *)
(***************************************************************************)
\* the labels of a container of this deployment, and of one that is not
Labelled == [k \in {"environment"} |-> "prod"]

Unlabelled == [k \in {} |-> "prod"]

\* containers.list(all=True) on the host whose managed containers have the
\* statuses st
Listing(st) ==
    [i \in 1..Len(Containers) |->
        [name |-> Containers[i], status |-> st[Containers[i]], labels |-> Labelled]]

\* 'environment' in c.labels
HasEnvironmentLabel(container) == "environment" \in DOMAIN container.labels

\* the info dict built for one container
ContainerInfo(container) ==
    [name |-> container.name, status |-> container.status,
     environment |-> IF "environment" \in DOMAIN container.labels
                     THEN container.labels["environment"] ELSE "unknown"]

IsRunning(info) == info.status = "running"

\* faulty variant of IsNotRunning: only exited containers count as stopped
IsExited(info) == info.status = "exited"

IsNotRunning(info) == info.status # "running"

\* check_container_health_status on a host that lists all_containers
HealthStatusOf(all_containers) ==
    LET containers == SelectSeq(all_containers, HasEnvironmentLabel)
        infos == [i \in 1..Len(containers) |-> ContainerInfo(containers[i])]
        running == SelectSeq(infos, IsRunning)
        stopped == SelectSeq(infos, IsNotRunning)
    IN  [total |-> Len(containers), running |-> Len(running),
         stopped |-> Len(stopped), running_containers |-> running,
         stopped_containers |-> stopped, all_healthy |-> Len(stopped) = 0]

\* faulty variant of Snapshot: the running and stopped lists are kept from
\* the call before and added to
SnapshotAccumulating(st) ==
    LET now == HealthStatusOf(Listing(st))
        running == health.running_containers \o now.running_containers
        stopped == health.stopped_containers \o now.stopped_containers
    IN  [total |-> now.total, running |-> Len(running),
         stopped |-> Len(stopped), running_containers |-> running,
         stopped_containers |-> stopped, all_healthy |-> Len(stopped) = 0]

\* the dict check_container_health_status returns for the host state st
Snapshot(st) == HealthStatusOf(Listing(st))

(***************************************************************************)
(* Alert manager: send_container_down_alert.                               *)
(***************************************************************************)
\* faulty variant of SendEmail: the policy table is not consulted
SendEmailAlways(alert_level) == TRUE

\* ALERT_LEVELS.get(alert_level, {}).get("send_email", True)
SendEmail(alert_level) ==
    IF alert_level \in DOMAIN ALERT_LEVELS THEN ALERT_LEVELS[alert_level].send_email
    ELSE TRUE

\* faulty variant of AlertLevel: a failed heal keeps the level of line 114
AlertLevelByCriticality(container_name, auto_heal_result) ==
    LET is_critical == container_name \in CRITICAL_SERVICES
    IN  IF auto_heal_result.success THEN "SUCCESS"
        ELSE IF is_critical THEN "CRITICAL" ELSE "WARNING"

\* the alert_level send_container_down_alert ends with
AlertLevel(container_name, auto_heal_result) ==
    LET is_critical == container_name \in CRITICAL_SERVICES
        alert_level == IF is_critical THEN "CRITICAL" ELSE "WARNING"
    IN  IF auto_heal_result.success THEN "SUCCESS" ELSE "CRITICAL"

\* the subject line
AlertSubject(auto_heal_result) ==
    IF auto_heal_result.success THEN "Auto-Healed Successfully"
    ELSE "DOWN - Auto-Heal FAILED"

\* faulty variant of EmailResult: a failed delivery is reported as a success
EmailResultAlwaysOk(delivered) == [success |-> TRUE, error |-> "<none>"]

\* the dict send_email_alert returns: success, or success False with str(e)
EmailResult(delivered) ==
    [success |-> delivered, error |-> IF delivered THEN "<none>" ELSE "smtp error"]

\* faulty variant of SmtpSessions: a failed delivery is tried a second time
SmtpSessionsRetried(delivered) == IF delivered THEN 1 ELSE 2

\* the SMTP sessions one send_email_alert call opens: the with block is
\* entered once, whether or not the delivery goes through
SmtpSessions(delivered) == 1

\* the dict send_container_down_alert returns when the level is not emailed
LoggedResult == [success |-> TRUE, error |-> "<none>"]

\* what identifies an alert across cycles: the container and the outcome of
\* its resolution
DedupKey(container_name, auto_heal_result) ==
    [container |-> container_name,
     outcome |-> IF auto_heal_result.success THEN "healed" ELSE auto_heal_result.error]

\* auto_heal_result.get('attempts', default) as printed in the body
AttemptsShown(auto_heal_result) ==
    IF auto_heal_result.has_attempts THEN auto_heal_result.attempts
    ELSE IF auto_heal_result.success THEN 1 ELSE 0

(***************************************************************************)
(* Direct calls of the orchestrator.                                       *)
(***************************************************************************)
\* the dict the check modes pass as auto_heal_result
CheckModeResult(old_status) ==
    [success |-> FALSE, error |-> "Check mode - no healing attempted", attempts |-> 0,
     has_attempts |-> TRUE, old_status |-> old_status, new_status |-> "<none>"]

\* monitor_containers calls before the heal / alert of one container
PreDiagCalls == IF continuous THEN 1 ELSE IF mode = "check" THEN 3 ELSE 2

\* monitor_containers calls between the heal result and the alert
PostDiagCalls(result) == IF continuous THEN (IF result.success THEN 1 ELSE 0) ELSE 1

\* faulty variant of Current: the stopped list is gone through from its end
CurrentFromEnd ==
    health.stopped_containers[Len(health.stopped_containers) - idx + 1]

\* the container the for loop is at
Current == health.stopped_containers[idx]

\* faulty variant of AttemptsRemain: one attempt too many
AttemptsRemainInclusive(a, max_attempts) == a <= max_attempts

\* range(1, max_attempts + 1): is there an attempt after this one
AttemptsRemain(a, max_attempts) == a < max_attempts

\* the hosts a monitor_containers call can leave behind when the engine requests
\* the tools reqs in turn: each request goes through the registry
RECURSIVE MonitorEffects(_, _)
MonitorEffects(reqs, d) ==
    IF reqs = <<>> THEN {d}
    ELSE LET after == IF Head(reqs) \notin TOOL_MAP("docker") THEN {d}
                      ELSE ToolEffect(Head(reqs), d) \cup {d}
         IN  UNION {MonitorEffects(Tail(reqs), e) : e \in after}

\* one monitor_containers(question) call made by the orchestrator inside
\* try/except: the engine requests some tools, the call returns a text or raises
MonitorCall(reqs, failed) ==
    /\ reqs \in BoundedSeq(RequestNames("docker"), MaxDiagCalls)
    /\ \E d \in MonitorEffects(reqs, Docker) :
          /\ status' = d.status
          /\ restartCalls' = d.restartCalls
    /\ diagRequested' = diagRequested \cup Range(reqs)
    /\ diagFailed' = failed

\* faulty variant of AfterMonitorCall: the exception of a failed call is not
\* caught
AfterMonitorCallUncaught(failed, next) == IF failed THEN "raised_diag" ELSE next

\* where the orchestrator goes after a monitor_containers call: "except
\* Exception" prints and the function goes on as after a returned text
AfterMonitorCall(failed, next) == next

\* health = get_health_status() at the top of a cycle
GetHealth ==
    /\ opc = "start"
    /\ cycle_count' = cycle_count + 1
    /\ alerts' = <<>>
    /\ emailCalls' = 0
    /\ UNCHANGED transmitted
    /\ diagStep' = 0
    /\ diagRequested' = {}
    /\ diagFailed' = FALSE
    /\ \/ \* the Docker call raises: nothing catches it
          /\ opc' = "raised_health"
          /\ UNCHANGED <<health, idx>>
       \/ /\ health' = Snapshot(status)
          /\ idx' = 1
          /\ opc' = IF Snapshot(status).stopped > 0 THEN "diag"
                    ELSE IF mode = "check" /\ ~continuous THEN "summary"
                    ELSE IF continuous THEN "sleep" ELSE "done"
    /\ UNCHANGED <<interrupted, mode, continuous>>
    /\ UNCHANGED <<host, loopVars, dockerVars, healVars>>

\* orchestrate_check_only with all containers healthy: the AI health summary
HealthSummary ==
    /\ opc = "summary"
    /\ \E reqs \in BoundedSeq(RequestNames("docker"), MaxDiagCalls), failed \in BOOLEAN :
          /\ MonitorCall(reqs, failed)
          /\ opc' = AfterMonitorCall(failed, "done")
    /\ UNCHANGED <<interrupted, mode, continuous, cycle_count, health, idx, diagStep>>
    /\ UNCHANGED <<host, loopVars, healVars, alertVars>>

\* the diagnosis calls before healing / alerting the current container
Diagnose ==
    /\ opc = "diag"
    /\ \E reqs \in BoundedSeq(RequestNames("docker"), MaxDiagCalls), failed \in BOOLEAN :
          /\ MonitorCall(reqs, failed)
          /\ opc' = AfterMonitorCall(failed,
                       IF diagStep + 1 < PreDiagCalls THEN "diag"
                       ELSE IF mode = "heal" THEN "heal_lookup" ELSE "alert")
    /\ diagStep' = diagStep + 1
    /\ IF diagStep + 1 < PreDiagCalls \/ mode = "heal"
       THEN UNCHANGED heal_result
       ELSE heal_result' = CheckModeResult(Current.status)
    /\ UNCHANGED <<interrupted, mode, continuous, cycle_count, health, idx>>
    /\ UNCHANGED <<host, loopVars, attempt, healRestarts, attemptLog, alertVars>>

\* where the orchestrator goes once heal_container has returned result
AfterHeal(result) == IF PostDiagCalls(result) > 0 THEN "post" ELSE "alert"

\* faulty variant of NotFoundResult: the attempts key is left out
NotFoundResultNoAttempts ==
    [success |-> FALSE, error |-> "Container not found", attempts |-> -1,
     has_attempts |-> FALSE, old_status |-> "<none>", new_status |-> "<none>"]

\* the dict returned on NotFound
NotFoundResult ==
    [success |-> FALSE, error |-> "Container not found", attempts |-> 0,
     has_attempts |-> TRUE, old_status |-> "<none>", new_status |-> "<none>"]

\* faulty variant of SucceededResult: the attempt count is the maximum
SucceededResultMaxAttempts(a, old_status) ==
    [success |-> TRUE, error |-> "<none>", attempts |-> MAX_RESTART_ATTEMPTS,
     has_attempts |-> TRUE, old_status |-> old_status, new_status |-> "running"]

\* the dict returned when container.status == "running" after the restart
SucceededResult(a, old_status) ==
    [success |-> TRUE, error |-> "<none>", attempts |-> a,
     has_attempts |-> TRUE, old_status |-> old_status, new_status |-> "running"]

\* one attempt as the retry loop saw it: what restart and reload did, and
\* whether time.sleep(2) followed it
AttemptEntry(outcome) == [outcome |-> outcome, slept |-> FALSE]

\* heal_container -> restart_container_with_retry: get_docker_client() and
\* client.containers.get(container_name)
HealLookup ==
    /\ opc = "heal_lookup"
    /\ healRestarts' = 0
    /\ attemptLog' = <<>>
    /\ \/ \* the client or the lookup raises something other than NotFound
          /\ opc' = "raised_heal"
          /\ UNCHANGED <<attempt, heal_result>>
       \/ \* NotFound
          /\ heal_result' = NotFoundResult
          /\ opc' = AfterHeal(heal_result')
          /\ UNCHANGED attempt
       \/ \* found: old_status = container.status, the for loop starts
          /\ attempt' = 1
          /\ heal_result' = [NoHealResult EXCEPT !.old_status = status[Current.name]]
          /\ opc' = "heal_attempt"
    /\ UNCHANGED <<interrupted, mode, continuous, cycle_count, health, idx, diagStep, diagRequested>>
    /\ diagFailed' = FALSE
    /\ UNCHANGED <<host, loopVars, dockerVars, alertVars>>

\* one iteration of "for attempt in range(1, max_attempts + 1)", with the
\* return after the loop when it was the last one
HealAttempt ==
    /\ opc = "heal_attempt"
    /\ restartCalls' = restartCalls + 1
    /\ healRestarts' = healRestarts + 1
    /\ \/ \* restart and reload return, the container runs
          /\ status' = [status EXCEPT ![Current.name] = "running"]
          /\ attemptLog' = Append(attemptLog, AttemptEntry("running"))
          /\ heal_result' = SucceededResult(attempt, heal_result.old_status)
          /\ opc' = AfterHeal(heal_result')
          /\ UNCHANGED attempt
       \/ \* restart and reload return, the container does not run
          /\ status' = [status EXCEPT ![Current.name] = "exited"]
          /\ attemptLog' = Append(attemptLog, AttemptEntry("not_running"))
          /\ IF AttemptsRemain(attempt, MAX_RESTART_ATTEMPTS)
             THEN /\ attempt' = attempt + 1
                  /\ UNCHANGED <<heal_result, opc>>
             ELSE /\ heal_result' =
                        [success |-> FALSE, error |-> "Max attempts reached",
                         attempts |-> -1, has_attempts |-> FALSE,
                         old_status |-> "<none>", new_status |-> "<none>"]
                  /\ opc' = AfterHeal(heal_result')
                  /\ UNCHANGED attempt
       \/ \* restart or reload raises: return on the last attempt, else sleep(2)
          \* and the for loop goes on
          /\ UNCHANGED status
          /\ attemptLog' = Append(attemptLog, AttemptEntry("raised"))
          /\ IF attempt = MAX_RESTART_ATTEMPTS
             THEN /\ heal_result' =
                        [success |-> FALSE, error |-> "exception", attempts |-> attempt,
                         has_attempts |-> TRUE, old_status |-> heal_result.old_status,
                         new_status |-> "<none>"]
                  /\ opc' = AfterHeal(heal_result')
                  /\ UNCHANGED attempt
             ELSE IF AttemptsRemain(attempt, MAX_RESTART_ATTEMPTS)
             THEN /\ attempt' = attempt + 1
                  /\ opc' = "heal_sleep"
                  /\ UNCHANGED heal_result
             ELSE /\ heal_result' =
                        [success |-> FALSE, error |-> "Max attempts reached",
                         attempts |-> -1, has_attempts |-> FALSE,
                         old_status |-> "<none>", new_status |-> "<none>"]
                  /\ opc' = AfterHeal(heal_result')
                  /\ UNCHANGED attempt
    /\ UNCHANGED <<interrupted, mode, continuous, cycle_count, health, idx, diagStep, diagRequested>>
    /\ diagFailed' = FALSE
    /\ UNCHANGED <<host, loopVars, alertVars>>

\* time.sleep(2) in the except branch, before the next attempt
HealSleep ==
    /\ opc = "heal_sleep"
    /\ attemptLog' = [attemptLog EXCEPT ![Len(attemptLog)].slept = TRUE]
    /\ opc' = "heal_attempt"
    /\ UNCHANGED <<interrupted, mode, continuous, cycle_count, health, idx, diagStep, diagRequested>>
    /\ diagFailed' = FALSE
    /\ UNCHANGED <<attempt, healRestarts, heal_result>>
    /\ UNCHANGED <<host, loopVars, dockerVars, alertVars>>

\* the diagnosis call after healing (verification or failure analysis)
PostDiagnose ==
    /\ opc = "post"
    /\ \E reqs \in BoundedSeq(RequestNames("docker"), MaxDiagCalls), failed \in BOOLEAN :
          /\ MonitorCall(reqs, failed)
          /\ opc' = AfterMonitorCall(failed, "alert")
    /\ UNCHANGED <<interrupted, mode, continuous, cycle_count, health, idx, diagStep>>
    /\ UNCHANGED <<host, loopVars, healVars, alertVars>>

\* send_container_down_alert(container_name, auto_heal_result), then the for
\* loop moves to the next stopped container or the cycle ends
SendAlert ==
    /\ opc = "alert"
    /\ LET level == AlertLevel(Current.name, heal_result)
           entry == [container |-> Current.name, alert_level |-> level,
                     success |-> heal_result.success,
                     subject |-> AlertSubject(heal_result),
                     attempts |-> AttemptsShown(heal_result),
                     restarts |-> IF mode = "heal" THEN healRestarts ELSE 0,
                     emails |-> 0, delivered |-> FALSE, sessions |-> 0,
                     result |-> LoggedResult]
       IN  IF SendEmail(level)
           THEN \* send_email_alert: delivered or not, a result is returned
                /\ emailCalls' = emailCalls + 1
                /\ \E delivered \in BOOLEAN :
                      /\ alerts' = Append(alerts,
                                    [entry EXCEPT !.emails = 1, !.delivered = delivered,
                                                  !.sessions = SmtpSessions(delivered),
                                                  !.result = EmailResult(delivered)])
                      /\ transmitted' =
                            IF delivered
                            THEN transmitted (+) SetToBag({DedupKey(Current.name, heal_result)})
                            ELSE transmitted
           ELSE /\ alerts' = Append(alerts, entry)
                /\ UNCHANGED <<emailCalls, transmitted>>
    /\ IF idx < Len(health.stopped_containers)
       THEN /\ idx' = idx + 1
            /\ opc' = "diag"
       ELSE /\ UNCHANGED idx
            /\ opc' = IF continuous THEN "sleep" ELSE "done"
    /\ diagStep' = 0
    /\ diagRequested' = {}
    /\ diagFailed' = FALSE
    \* the incident is over: its attempts are no longer looked at
    /\ attemptLog' = <<>>
    /\ UNCHANGED <<interrupted, mode, continuous, cycle_count, health>>
    /\ UNCHANGED <<attempt, healRestarts, heal_result>>
    /\ UNCHANGED <<host, loopVars, dockerVars>>

\* time.sleep(MONITORING_INTERVAL_SECONDS), then while True goes round
Sleep ==
    /\ opc = "sleep"
    /\ cycle_count < MaxCycles
    /\ opc' = "start"
    /\ UNCHANGED <<interrupted, mode, continuous, cycle_count, health, idx, diagStep, diagRequested>>
    /\ diagFailed' = FALSE
    /\ UNCHANGED <<host, loopVars, dockerVars, healVars, alertVars>>

\* the positions of orchestrate_continuous at which Ctrl+C can arrive
Interruptible ==
    {"start", "diag", "heal_lookup", "heal_attempt", "heal_sleep", "post", "alert",
     "sleep"}

\* KeyboardInterrupt in orchestrate_continuous: it leaves the while loop for
\* the handler at the end of the function, from wherever it arrives; only
\* inside the verification call is it swallowed by the bare except
Interrupt ==
    /\ continuous
    /\ opc \in Interruptible
    /\ interrupted' = TRUE
    /\ \/ opc' = "stopped"
       \/ /\ opc = "post"
          /\ opc' = "alert"
    /\ UNCHANGED <<mode, continuous, cycle_count, health, idx, diagStep, diagRequested>>
    /\ diagFailed' = FALSE
    /\ UNCHANGED <<host, loopVars, dockerVars, healVars, alertVars>>

\* KeyboardInterrupt while container.restart or container.reload is under
\* way: the restart was asked for, the exception is not an Exception, so it
\* leaves the retry loop and the while loop, and the container is left as the
\* daemon got it
InterruptRestart ==
    /\ continuous
    /\ opc = "heal_attempt"
    /\ interrupted' = TRUE
    /\ restartCalls' = restartCalls + 1
    /\ healRestarts' = healRestarts + 1
    /\ \E s \in {"running", "exited"} : status' = [status EXCEPT ![Current.name] = s]
    /\ attemptLog' = Append(attemptLog, AttemptEntry("interrupted"))
    /\ opc' = "stopped"
    /\ UNCHANGED <<mode, continuous, cycle_count, health, idx, diagStep, diagRequested>>
    /\ diagFailed' = FALSE
    /\ UNCHANGED <<attempt, heal_result>>
    /\ UNCHANGED <<host, loopVars, alertVars>>

\* orchestrator.py started with --mode and, or not, --continuous
InitOrch ==
    /\ agent = "none"
    /\ max_iterations = 0
    /\ lpc = "idle"
    /\ messages = <<>>
    /\ iteration = 0
    /\ ai = NoAi
    /\ callIdx = 1
    /\ engineCalls = 0
    /\ dispatches = 0
    /\ answer = NoAnswer
    /\ status \in [ContainerNames -> {"running", "exited"}]
    /\ restartCalls = 0
    /\ mode \in {"check", "heal"}
    /\ continuous \in BOOLEAN
    /\ opc = "start"
    /\ cycle_count = 0
    /\ health = NoHealth
    /\ idx = 0
    /\ diagStep = 0
    /\ diagRequested = {}
    /\ diagFailed = FALSE
    /\ interrupted = FALSE
    /\ attempt = 0
    /\ healRestarts = 0
    /\ heal_result = NoHealResult
    /\ attemptLog = <<>>
    /\ alerts = <<>>
    /\ emailCalls = 0
    /\ transmitted = EmptyBag
    /\ host = <<>>

NextOrch ==
    \/ GetHealth
    \/ HealthSummary
    \/ Diagnose
    \/ HealLookup
    \/ HealAttempt
    \/ HealSleep
    \/ PostDiagnose
    \/ SendAlert
    \/ Sleep
    \/ Interrupt
    \/ InterruptRestart

SpecOrch == InitOrch /\ [][NextOrch]_vars

(***************************************************************************)
(* The health check on its own, on any small host: containers with and     *)
(* without the 'environment' label, in any status.                         *)
(***************************************************************************)
HostNames == <<"prod-web-01", "dev-cache-01", "scratch-01", "scratch-02">>

Statuses == {"running", "exited", "paused"}

\* the hosts with at most MaxHost containers
Hosts ==
    UNION {[1..n -> [name : {"?"}, status : Statuses, labels : {Labelled, Unlabelled}]] :
             n \in 0..MaxHost}

InitSnap ==
    /\ agent = "none"
    /\ max_iterations = 0
    /\ lpc = "idle"
    /\ messages = <<>>
    /\ iteration = 0
    /\ ai = NoAi
    /\ callIdx = 1
    /\ engineCalls = 0
    /\ dispatches = 0
    /\ answer = NoAnswer
    /\ status = [c \in ContainerNames |-> "exited"]
    /\ restartCalls = 0
    /\ mode = "none"
    /\ continuous = FALSE
    /\ opc = "health_check"
    /\ cycle_count = 0
    /\ health = NoHealth
    /\ idx = 0
    /\ diagStep = 0
    /\ diagRequested = {}
    /\ diagFailed = FALSE
    /\ interrupted = FALSE
    /\ attempt = 0
    /\ healRestarts = 0
    /\ heal_result = NoHealResult
    /\ attemptLog = <<>>
    /\ alerts = <<>>
    /\ emailCalls = 0
    /\ transmitted = EmptyBag
    /\ \E h \in Hosts : host = [i \in 1..Len(h) |-> [h[i] EXCEPT !.name = HostNames[i]]]

\* check_container_health_status() returns
CheckHealth ==
    /\ opc = "health_check"
    /\ health' = HealthStatusOf(host)
    /\ opc' = "health_returned"
    /\ UNCHANGED <<interrupted, mode, continuous, cycle_count, idx, diagStep, diagRequested>>
    /\ diagFailed' = FALSE
    /\ UNCHANGED <<host, loopVars, dockerVars, healVars, alertVars>>

NextSnap == CheckHealth

SpecSnap == InitSnap /\ [][NextSnap]_vars

(***************************************************************************)
(* The public alert functions called on their own, as the __main__ block   *)
(* of alert_manager_agent.py and any importer can: each is called once,    *)
(* with a health snapshot of the host or one of its containers.            *)
(***************************************************************************)
InitAlert ==
    /\ agent = "none"
    /\ max_iterations = 0
    /\ lpc = "idle"
    /\ messages = <<>>
    /\ iteration = 0
    /\ ai = NoAi
    /\ callIdx = 1
    /\ engineCalls = 0
    /\ dispatches = 0
    /\ answer = NoAnswer
    /\ status = [c \in ContainerNames |-> "exited"]
    /\ restartCalls = 0
    /\ mode = "none"
    /\ continuous = FALSE
    /\ opc = "alert_idle"
    /\ cycle_count = 0
    /\ health = NoHealth
    /\ idx = 0
    /\ diagStep = 0
    /\ diagRequested = {}
    /\ diagFailed = FALSE
    /\ interrupted = FALSE
    /\ attempt = 0
    /\ healRestarts = 0
    /\ heal_result = NoHealResult
    /\ attemptLog = <<>>
    /\ alerts = <<>>
    /\ emailCalls = 0
    /\ transmitted = EmptyBag
    /\ \E h \in Hosts : host = [i \in 1..Len(h) |-> [h[i] EXCEPT !.name = HostNames[i]]]

\* send_email_alert(subject, body, alert_level) called without a look at
\* ALERT_LEVELS[alert_level]["send_email"]: one SMTP session, a result dict
DirectEmail(subject, alert_level) ==
    /\ emailCalls' = emailCalls + 1
    /\ \E delivered \in BOOLEAN :
          alerts' = Append(alerts,
                       [container |-> "<none>", alert_level |-> alert_level,
                        success |-> FALSE, subject |-> subject,
                        attempts |-> 0, restarts |-> 0,
                        emails |-> 1, delivered |-> delivered,
                        sessions |-> SmtpSessions(delivered),
                        result |-> EmailResult(delivered)])
    /\ UNCHANGED transmitted

\* send_monitoring_summary(health_status, healed_containers)
SendMonitoringSummary ==
    /\ opc = "alert_idle"
    /\ health' = HealthStatusOf(host)
    /\ DirectEmail("Monitoring Summary", "INFO")
    /\ opc' = "alert_returned"
    /\ UNCHANGED <<interrupted, mode, continuous, cycle_count, idx, diagStep, diagRequested>>
    /\ diagFailed' = FALSE
    /\ UNCHANGED <<host, loopVars, dockerVars, healVars>>

\* send_test_alert()
SendTestAlert ==
    /\ opc = "alert_idle"
    /\ DirectEmail("Test Alert", "INFO")
    /\ opc' = "alert_returned"
    /\ UNCHANGED <<interrupted, mode, continuous, cycle_count, health, idx, diagStep, diagRequested>>
    /\ diagFailed' = FALSE
    /\ UNCHANGED <<host, loopVars, dockerVars, healVars>>

\* the results a caller can pass as auto_heal_result
AutoHealResults ==
    {SucceededResult(1, "exited"), NotFoundResult, CheckModeResult("exited")}

\* send_container_down_alert(container_name, auto_heal_result)
SendContainerDownAlert ==
    /\ opc = "alert_idle"
    /\ \E i \in 1..Len(host), auto_heal_result \in AutoHealResults :
          LET container_name == host[i].name
              level == AlertLevel(container_name, auto_heal_result)
              entry == [container |-> container_name, alert_level |-> level,
                        success |-> auto_heal_result.success,
                        subject |-> AlertSubject(auto_heal_result),
                        attempts |-> AttemptsShown(auto_heal_result),
                        restarts |-> 0,
                        emails |-> 0, delivered |-> FALSE, sessions |-> 0,
                        result |-> LoggedResult]
          IN  /\ heal_result' = auto_heal_result
              /\ IF SendEmail(level)
                 THEN /\ emailCalls' = emailCalls + 1
                      /\ \E delivered \in BOOLEAN :
                            /\ alerts' = Append(alerts,
                                  [entry EXCEPT !.emails = 1, !.delivered = delivered,
                                                !.sessions = SmtpSessions(delivered),
                                                !.result = EmailResult(delivered)])
                            /\ transmitted' =
                                  IF delivered
                                  THEN transmitted (+)
                                       SetToBag({DedupKey(container_name, auto_heal_result)})
                                  ELSE transmitted
                 ELSE /\ alerts' = Append(alerts, entry)
                      /\ UNCHANGED <<emailCalls, transmitted>>
    /\ opc' = "alert_returned"
    /\ UNCHANGED <<interrupted, mode, continuous, cycle_count, health, idx, diagStep, diagRequested>>
    /\ diagFailed' = FALSE
    /\ UNCHANGED <<attempt, healRestarts, attemptLog>>
    /\ UNCHANGED <<host, loopVars, dockerVars>>

NextAlert == SendContainerDownAlert \/ SendMonitoringSummary \/ SendTestAlert

SpecAlert == InitAlert /\ [][NextAlert]_vars

\* C34: an alert of a level the policy table marks as not to be emailed
\* (INFO, SUCCESS) never reaches send_email_alert, whichever public alert
\* function made it.
C34_PolicyRespectedByAll ==
    \A i \in 1..Len(alerts) :
        alerts[i].alert_level \in {"INFO", "SUCCESS"} =>
            alerts[i].emails = 0 /\ alerts[i].sessions = 0

(***************************************************************************)
(* incident_response_agent(issue_description): one engine call, then the   *)
(* first tool call of the response, if there is one.  Here answer is the   *)
(* dict the function returns.                                              *)
(***************************************************************************)
\* tool names the Decision Engine is let to request from this agent: its two
\* tools and one it has not registered
IncidentRequestNames ==
    INCIDENT_TOOL_MAP \cup {"get_container_logs"}

\* what llm.invoke(messages) can return
IncidentResponses ==
    {AIMessage(text, <<>>) : text \in Texts}
        \cup {AIMessage(<<>>, [i \in 1..Len(names) |-> [name |-> names[i], id |-> CallId(1, i)]]) :
                names \in BoundedSeq(IncidentRequestNames, MaxCalls) \ {<<>>}}

\* faulty variant of ChosenCall: the last requested call is taken
ChosenCallLast(tool_calls) == tool_calls[Len(tool_calls)]

\* call = ai.tool_calls[0]
ChosenCall(tool_calls) == tool_calls[1]

InitIncident ==
    /\ agent = "incident"
    /\ max_iterations = 0
    /\ lpc = "invoke"
    /\ messages = <<HumanMessage>>
    /\ iteration = 0
    /\ ai = NoAi
    /\ callIdx = 1
    /\ engineCalls = 0
    /\ dispatches = 0
    /\ answer = NoAnswer
    /\ status \in [ContainerNames -> {"running", "exited"}]
    /\ restartCalls = 0
    /\ mode = "none"
    /\ continuous = FALSE
    /\ opc = "none"
    /\ cycle_count = 0
    /\ health = NoHealth
    /\ idx = 0
    /\ diagStep = 0
    /\ diagRequested = {}
    /\ diagFailed = FALSE
    /\ interrupted = FALSE
    /\ attempt = 0
    /\ healRestarts = 0
    /\ heal_result = NoHealResult
    /\ attemptLog = <<>>
    /\ alerts = <<>>
    /\ emailCalls = 0
    /\ transmitted = EmptyBag
    /\ host = <<>>

\* ai = llm.invoke(messages), outside any try, and the test on ai.tool_calls
IncidentInvoke ==
    /\ agent = "incident"
    /\ lpc = "invoke"
    /\ engineCalls' = engineCalls + 1
    /\ \/ \* the engine call fails: the exception leaves the function
          /\ lpc' = "raised"
          /\ UNCHANGED <<ai, answer>>
       \/ \E response \in IncidentResponses :
             /\ ai' = response
             /\ IF ~WantsTools(response)
                THEN /\ answer' = [action |-> "no_action",
                                   reasoning |-> Strip(response.content),
                                   has_result |-> FALSE]
                     /\ lpc' = "returned"
                ELSE /\ lpc' = "tool"
                     /\ UNCHANGED answer
    /\ UNCHANGED <<agent, max_iterations, messages, iteration, callIdx, dispatches>>
    /\ UNCHANGED <<host, dockerVars, orchVars, healVars, alertVars>>

\* the look-up of the chosen call in TOOL_MAP and its invocation, outside
\* any try
IncidentDispatch ==
    /\ agent = "incident"
    /\ lpc = "tool"
    /\ LET tool_name == ChosenCall(ai.tool_calls).name
       IN  IF tool_name \in INCIDENT_TOOL_MAP
           THEN /\ dispatches' = dispatches + 1
                /\ \/ \* the tool returns its dict
                      /\ \E d \in ToolEffect(tool_name, Docker) :
                            /\ status' = d.status
                            /\ restartCalls' = d.restartCalls
                      /\ answer' = [action |-> tool_name, reasoning |-> <<>>,
                                    has_result |-> TRUE]
                      /\ lpc' = "returned"
                   \/ \* the tool raises (no Docker daemon): nothing catches it
                      /\ lpc' = "raised"
                      /\ UNCHANGED <<dockerVars, answer>>
           ELSE /\ answer' = [action |-> "unknown", reasoning |-> <<>>,
                              has_result |-> FALSE]
                /\ lpc' = "returned"
                /\ UNCHANGED <<dockerVars, dispatches>>
    /\ UNCHANGED <<agent, max_iterations, messages, iteration, ai, callIdx, engineCalls>>
    /\ UNCHANGED <<host, orchVars, healVars, alertVars>>

NextIncident == IncidentInvoke \/ IncidentDispatch

SpecIncident == InitIncident /\ [][NextIncident]_vars

\* C37: incident_response_agent calls the engine once and dispatches at most
\* one tool, the first one requested: with no tool requested it returns
\* no_action, with an unregistered first tool it returns unknown, both with
\* no dispatch; otherwise the action is the first tool and no other tool ran.
C37_OneEngineCallFirstToolOnly ==
    /\ engineCalls <= 1
    /\ dispatches <= 1
    /\ lpc \in {"tool", "returned", "raised"} => engineCalls = 1
    /\ lpc \in {"invoke", "tool"} => dispatches = 0 /\ restartCalls = 0
    /\ lpc = "returned" =>
          IF ai.tool_calls = <<>>
          THEN answer.action = "no_action" /\ dispatches = 0 /\ restartCalls = 0
          ELSE IF ai.tool_calls[1].name \notin INCIDENT_TOOL_MAP
          THEN answer.action = "unknown" /\ dispatches = 0 /\ restartCalls = 0
          ELSE /\ answer.action = ai.tool_calls[1].name
               /\ dispatches = 1
               /\ restartCalls > 0 =>
                     ai.tool_calls[1].name = "restart_container_with_retry"

\* the engine asked for the health check and then for a restart: the health
\* check alone was dispatched
C37_Witness ==
    /\ agent = "incident" /\ lpc = "returned"
    /\ Len(ai.tool_calls) = 2
    /\ ai.tool_calls[1].name = "check_container_health_status"
    /\ ai.tool_calls[2].name = "restart_container_with_retry"
    /\ answer.action = "check_container_health_status"
    /\ dispatches = 1 /\ restartCalls = 0

(***************************************************************************)
(* heal_all_containers(): the listing is filtered by label and walked      *)
(* once.  Here health holds the three lists while the loop runs and the    *)
(* returned dict after it, and attemptLog the restart_container_with_retry *)
(* invocations.                                                            *)
(***************************************************************************)
\* containers = [c for c in all_containers if 'environment' in c.labels]
ManagedContainers(all_containers) == SelectSeq(all_containers, HasEnvironmentLabel)

\* the dicts restart_container_with_retry can return for a container
RestartResults(old_status) ==
    {SucceededResult(a, old_status) : a \in 1..MAX_RESTART_ATTEMPTS}
        \cup {NotFoundResult,
              [success |-> FALSE, error |-> "exception",
               attempts |-> MAX_RESTART_ATTEMPTS, has_attempts |-> TRUE,
               old_status |-> old_status, new_status |-> "<none>"],
              [success |-> FALSE, error |-> "Max attempts reached",
               attempts |-> -1, has_attempts |-> FALSE,
               old_status |-> "<none>", new_status |-> "<none>"]}

\* the container.restart() calls behind a returned dict
RestartsOf(result) ==
    IF result.success THEN result.attempts
    ELSE IF result.error = "Container not found" THEN 0
    ELSE MAX_RESTART_ATTEMPTS

\* faulty variant of RequiresHuman: any container that was not running asks
\* for a human
RequiresHumanAnyUnhealthy(healed, failed_healing) ==
    Len(healed) + Len(failed_healing) > 0

\* "requires_human_intervention": len(failed_healing) > 0
RequiresHuman(healed, failed_healing) == Len(failed_healing) > 0

\* the dict heal_all_containers returns
HealAllResult(containers, healed, already_healthy, failed_healing) ==
    [total_containers |-> Len(containers),
     healthy_count |-> Len(already_healthy),
     healed_count |-> Len(healed),
     failed_count |-> Len(failed_healing),
     healed_containers |-> healed,
     failed_containers |-> failed_healing,
     healthy_containers |-> [i \in 1..Len(already_healthy) |-> already_healthy[i].name],
     requires_human_intervention |-> RequiresHuman(healed, failed_healing)]

InitHealAll ==
    /\ agent = "none"
    /\ max_iterations = 0
    /\ lpc = "idle"
    /\ messages = <<>>
    /\ iteration = 0
    /\ ai = NoAi
    /\ callIdx = 1
    /\ engineCalls = 0
    /\ dispatches = 0
    /\ answer = NoAnswer
    /\ status = [c \in ContainerNames |-> "exited"]
    /\ restartCalls = 0
    /\ mode = "none"
    /\ continuous = FALSE
    /\ opc = "heal_all_list"
    /\ cycle_count = 0
    /\ health = NoHealth
    /\ idx = 0
    /\ diagStep = 0
    /\ diagRequested = {}
    /\ diagFailed = FALSE
    /\ interrupted = FALSE
    /\ attempt = 0
    /\ healRestarts = 0
    /\ heal_result = NoHealResult
    /\ attemptLog = <<>>
    /\ alerts = <<>>
    /\ emailCalls = 0
    /\ transmitted = EmptyBag
    /\ \E h \in Hosts : host = [i \in 1..Len(h) |-> [h[i] EXCEPT !.name = HostNames[i]]]

\* get_docker_client(), containers.list(all=True) and the three empty lists
HealAllList ==
    /\ opc = "heal_all_list"
    /\ \/ \* no Docker daemon: the exception leaves the function
          /\ opc' = "heal_all_raised"
          /\ UNCHANGED <<health, idx>>
       \/ /\ health' = [healed |-> <<>>, already_healthy |-> <<>>,
                        failed_healing |-> <<>>]
          /\ idx' = 1
          /\ opc' = "heal_all_loop"
    /\ UNCHANGED <<interrupted, mode, continuous, cycle_count, diagStep, diagRequested>>
    /\ diagFailed' = FALSE
    /\ UNCHANGED <<host, loopVars, dockerVars, healVars, alertVars>>

\* one pass of "for container in containers"
HealAllStep ==
    /\ opc = "heal_all_loop"
    /\ idx <= Len(ManagedContainers(host))
    /\ LET container == ManagedContainers(host)[idx]
       IN  IF container.status = "running"
           THEN /\ health' = [health EXCEPT !.already_healthy =
                                 Append(@, [name |-> container.name, status |-> "running"])]
                /\ idx' = idx + 1
                /\ UNCHANGED <<opc, restartCalls, attemptLog>>
           ELSE \/ \* restart_container_with_retry returns a dict
                   \E result \in RestartResults(container.status) :
                      LET entry == [container |-> container.name, result |-> result]
                      IN  /\ health' =
                                IF result.success
                                THEN [health EXCEPT !.healed = Append(@, entry)]
                                ELSE [health EXCEPT !.failed_healing = Append(@, entry)]
                          /\ restartCalls' = restartCalls + RestartsOf(result)
                          /\ attemptLog' =
                                Append(attemptLog,
                                       [container |-> container.name,
                                        outcome |-> IF result.success THEN "running"
                                                    ELSE "not_running"])
                          /\ idx' = idx + 1
                          /\ UNCHANGED opc
                \/ \* restart_container_with_retry raises: nothing catches it
                   /\ attemptLog' =
                         Append(attemptLog,
                                [container |-> container.name, outcome |-> "raised"])
                   /\ opc' = "heal_all_raised"
                   /\ UNCHANGED <<health, idx, restartCalls>>
    /\ UNCHANGED <<interrupted, mode, continuous, cycle_count, diagStep, diagRequested>>
    /\ diagFailed' = FALSE
    /\ UNCHANGED <<status, attempt, healRestarts, heal_result>>
    /\ UNCHANGED <<host, loopVars, alertVars>>

\* the return statement after the loop
HealAllReturn ==
    /\ opc = "heal_all_loop"
    /\ idx > Len(ManagedContainers(host))
    /\ health' = HealAllResult(ManagedContainers(host), health.healed,
                               health.already_healthy, health.failed_healing)
    /\ opc' = "heal_all_returned"
    /\ UNCHANGED <<interrupted, mode, continuous, cycle_count, idx, diagStep, diagRequested>>
    /\ diagFailed' = FALSE
    /\ UNCHANGED <<host, loopVars, dockerVars, healVars, alertVars>>

NextHealAll == HealAllList \/ HealAllStep \/ HealAllReturn

SpecHealAll == InitHealAll /\ [][NextHealAll]_vars

\* how often the name n stands in the three lists of the returned dict
TimesListed(n) ==
    Cardinality({i \in 1..Len(health.healthy_containers) : health.healthy_containers[i] = n})
    + Cardinality({i \in 1..Len(health.healed_containers) :
                      health.healed_containers[i].container = n})
    + Cardinality({i \in 1..Len(health.failed_containers) :
                      health.failed_containers[i].container = n})

\* C39: in the dict heal_all_containers returns the three counts add up to
\* total_containers, every managed container stands in exactly one of the
\* three lists, restart_container_with_retry was not invoked for a container
\* listed as running, and requires_human_intervention is failed_count > 0.
C39_HealAllAccounting ==
    opc = "heal_all_returned" =>
        LET containers == ManagedContainers(host)
        IN  /\ health.total_containers = Len(containers)
            /\ health.healthy_count + health.healed_count + health.failed_count
                  = health.total_containers
            /\ \A i \in 1..Len(containers) : TimesListed(containers[i].name) = 1
            /\ \A i \in 1..Len(host) :
                  ~HasEnvironmentLabel(host[i]) => TimesListed(host[i].name) = 0
            /\ \A i \in 1..Len(containers), k \in 1..Len(attemptLog) :
                  containers[i].status = "running" =>
                      attemptLog[k].container # containers[i].name
            /\ health.requires_human_intervention <=> health.failed_count > 0

\* a host with a running container, a healed one and one that could not be
\* healed
C39_Witness ==
    /\ opc = "heal_all_returned"
    /\ health.healthy_count = 1
    /\ health.healed_count = 1
    /\ health.failed_count = 1
    /\ health.requires_human_intervention

(***************************************************************************)
(* Claims about healing, alerting and the orchestrator cycles.             *)
(***************************************************************************)

\* restart_container_with_retry has returned a failure after its last attempt
Exhausted ==
    /\ mode = "heal"
    /\ opc \in {"post", "alert"}
    /\ ~heal_result.success
    /\ healRestarts = MAX_RESTART_ATTEMPTS

\* C3: for one incident restart_container_with_retry never issues more than
\* max_attempts restart calls, whatever the restarts raise or leave behind.
C3_RestartCallBound == healRestarts <= MAX_RESTART_ATTEMPTS

\* every attempt was made and the last one failed
C3_Witness == Exhausted

\* C4: when the retries end exhausted, the returned result reports
\* attempts = max_attempts, whether the attempts raised or returned with the
\* container not running, and the alert built from it shows the same count.
C4_ExhaustedReportsMaxAttempts ==
    /\ Exhausted =>
          /\ heal_result.has_attempts
          /\ heal_result.attempts = MAX_RESTART_ATTEMPTS
    /\ \A i \in 1..Len(alerts) :
          (~alerts[i].success /\ alerts[i].restarts = MAX_RESTART_ATTEMPTS)
             => alerts[i].attempts = MAX_RESTART_ATTEMPTS

\* the names of a sequence of container infos
RECURSIVE NamesOf(_)
NamesOf(infos) == IF infos = <<>> THEN <<>> ELSE <<Head(infos).name>> \o NamesOf(Tail(infos))

\* the containers alerted in this cycle, in order
RECURSIVE Alerted(_)
Alerted(as) == IF as = <<>> THEN <<>> ELSE <<Head(as).container>> \o Alerted(Tail(as))

\* the cycle that took the snapshot is over
CycleOver == opc \in {"done", "sleep", "raised_heal"}

\* C5: in every monitoring cycle each container of the snapshot's stopped list
\* gets exactly one alert and no other container gets one, whatever diagnosis
\* and healing do.
C5_OneAlertPerStopped ==
    CycleOver => Alerted(alerts) = NamesOf(health.stopped_containers)

\* C6: in check mode the alert of a stopped container is CRITICAL if the
\* container is in CRITICAL_SERVICES and WARNING otherwise.
C6_CheckModeSeverity ==
    mode = "check" =>
        \A i \in 1..Len(alerts) :
            alerts[i].alert_level =
                (IF alerts[i].container \in CRITICAL_SERVICES THEN "CRITICAL" ELSE "WARNING")

\* C7: in heal mode the alert is SUCCESS when healing succeeded and CRITICAL
\* when it failed, whether or not the container is in CRITICAL_SERVICES.
C7_HealModeSeverity ==
    mode = "heal" =>
        \A i \in 1..Len(alerts) :
            alerts[i].alert_level = (IF alerts[i].success THEN "SUCCESS" ELSE "CRITICAL")

\* a container outside CRITICAL_SERVICES whose retries were exhausted was alerted
C7_Witness ==
    /\ mode = "heal"
    /\ \E i \in 1..Len(alerts) :
          /\ alerts[i].container \notin CRITICAL_SERVICES
          /\ ~alerts[i].success
          /\ alerts[i].restarts = MAX_RESTART_ATTEMPTS
          /\ alerts[i].alert_level = "CRITICAL"

\* the alerts of the cycle whose level is WARNING or CRITICAL
Transmittable == {i \in 1..Len(alerts) : alerts[i].alert_level \in {"WARNING", "CRITICAL"}}

C9_CheckModeReadOnly ==
    [][mode = "check" =>
         /\ status' = status
         /\ restartCalls' = restartCalls
         /\ opc' \notin {"heal_lookup", "heal_attempt", "post"}]_vars

\* in the second cycle of a continuous check run the engine asked for the
\* restart tool during the diagnosis of a stopped container
C9_Witness ==
    /\ mode = "check"
    /\ continuous
    /\ cycle_count = 2
    /\ opc = "alert"
    /\ "restart_container_with_retry" \in diagRequested
    /\ restartCalls = 0

(***************************************************************************)
(* Further claims about the tool-dispatch loop.                            *)
(***************************************************************************)

\* a tool call whose name is registered is about to be dispatched
KnownPending ==
    /\ lpc = "tools"
    /\ callIdx <= Len(ai.tool_calls)
    /\ ai.tool_calls[callIdx].name \in TOOL_MAP(agent)

\* C11: when a tool handler raises during dispatch the exception does not leave
\* the loop: the step appends, for that call, either the handler's result or an
\* error result carrying the exception's message, and the loop stays in the
\* round (later calls of the round, then the next engine call).
C11_HandlerExceptionIsolated ==
    [][/\ KnownPending =>
            /\ lpc' = "tools"
            /\ callIdx' = callIdx + 1
            /\ Len(messages') = Len(messages) + 1
            /\ SubSeq(messages', 1, Len(messages)) = messages
            /\ LET m == messages'[Len(messages')]
                   call == ai.tool_calls[callIdx]
               IN  /\ m.type = "tool"
                   /\ m.tool_call_id = call.id
                   /\ \/ m.error = <<>> /\ m.content = <<"result", call.name>>
                      \/ m.error = <<"exception in ", call.name>> /\ m.content = <<>>
       /\ lpc = "tools" => lpc' \in {"tools", "invoke", "final"}]_vars

\* a handler raised, a later call of the same round was dispatched, and the
\* engine is called again
C11_Witness ==
    /\ lpc = "invoke"
    /\ \E q \in 1..(Len(messages) - 1) :
          /\ messages[q].type = "tool"
          /\ messages[q].error # <<>>
          /\ messages[q].error[1] = "exception in "
          /\ messages[q + 1].type = "tool"

\* the step is an engine call that failed: a call was made and no response
\* was received
EngineCallFailed == engineCalls' = engineCalls + 1 /\ ai' = ai

\* C12: a failed Decision Engine call is surfaced to the caller: the loop ends
\* raised with no answer, and after it no engine call is made and no tool is
\* dispatched.
C12_EngineFailureSurfaced ==
    [][/\ lpc # "raised"
       /\ EngineCallFailed =>
            /\ lpc' = "raised"
            /\ answer' = NoAnswer
            /\ dispatches' = dispatches
            /\ messages' = messages]_vars

\* the second engine call, made after a round of tools, failed
C12_Witness ==
    /\ lpc = "raised"
    /\ engineCalls = 2
    /\ iteration = 1
    /\ dispatches >= 1
    /\ answer = NoAnswer

\* the tool results in the transcript
ToolEntries == {q \in 1..Len(messages) : messages[q].type = "tool"}

\* the model messages in the transcript
AiEntries == {p \in 1..Len(messages) : messages[p].type = "ai"}

C18_ReturnsAtFirstAnswer ==
    [][/\ lpc # "returned"
       /\ (lpc = "invoke" /\ lpc' # "raised" /\ ai'.tool_calls = <<>>) =>
            /\ lpc' = "returned"
            /\ engineCalls' = iteration + 1
            /\ dispatches' = dispatches
            /\ messages' = messages
            /\ answer' = Strip(ai'.content)
            /\ iteration = 0 => (engineCalls' = 1 /\ dispatches' = 0)]_vars

\* the second response is the first one without tool calls
C18_Witness ==
    /\ lpc = "returned"
    /\ ai.tool_calls = <<>>
    /\ iteration = 1
    /\ iteration < max_iterations
    /\ engineCalls = 2
    /\ dispatches >= 1


\* C22: in ask_monitoring_agent tools are dispatched in one round only:
\* once a round has dispatched a tool, no later round dispatches one.
C22_StopsAfterOneToolRound ==
    [][(agent = "server" /\ dispatches' > dispatches) => iteration = 0]_vars

\* the loop has returned the text of a response without tool calls
AnsweredWithoutTools == lpc = "returned" /\ ai.tool_calls = <<>>

\* C29 as stated: the returned string is the engine's text, character for
\* character.
C29_AnswerVerbatim == AnsweredWithoutTools => answer = ai.content

\* t is s without its leading and trailing whitespace
IsTrimOf(t, s) ==
    \E i \in 1..(Len(s) + 1), j \in 0..Len(s) :
        /\ t = SubSeq(s, i, j)
        /\ \A k \in 1..(i - 1) : IsSpace(s[k])
        /\ \A k \in (j + 1)..Len(s) : IsSpace(s[k])
        /\ t # <<>> => (~IsSpace(t[1]) /\ ~IsSpace(t[Len(t)]))

\* C29, amended: the returned string is the engine's text without its
\* leading and trailing whitespace, and otherwise unchanged.
C29_AnswerStripped == AnsweredWithoutTools => IsTrimOf(answer, ai.content)

\* a direct answer with blanks around it was returned without them
C29_Witness ==
    /\ AnsweredWithoutTools
    /\ engineCalls = 1
    /\ ai.content = <<" ", "o", "k", " ">>
    /\ answer = <<"o", "k">>

IsPrefix(s, t) == Len(s) <= Len(t) /\ SubSeq(t, 1, Len(s)) = s

Settled == IF lpc = "tools" THEN Len(messages) - (callIdx - 1) ELSE Len(messages)

ToolOf(m) == IF m.error # <<>> THEN m.error[2] ELSE m.content[2]

\* C31: during a round the results appended so far are those of the first
\* calls of the response, one per call and in call order, each with the
\* correlation id of its call.
C31_DispatchInCallOrder ==
    lpc = "tools" =>
        LET done == callIdx - 1
            base == Len(messages) - done
        IN  /\ done <= Len(ai.tool_calls)
            /\ base >= 1
            /\ \A i \in 1..done :
                  /\ messages[base + i].type = "tool"
                  /\ messages[base + i].tool_call_id = ai.tool_calls[i].id
                  /\ ToolOf(messages[base + i]) = ai.tool_calls[i].name

\* in the second round both calls, for two different tools, have been
\* dispatched and the model message is not yet inserted
C31_Witness ==
    /\ lpc = "tools" /\ iteration = 1
    /\ callIdx = 3 /\ Len(ai.tool_calls) = 2
    /\ ai.tool_calls[1].name # ai.tool_calls[2].name

\* the loop has ended
Ended == lpc \in {"returned", "raised"}

\* what is left to do: rounds, then the phase of the round, then calls
LoopRank ==
    IF Ended THEN <<0, 0, 0>>
    ELSE IF lpc = "final" THEN <<0, 1, 0>>
    ELSE IF lpc = "tools"
    THEN <<max_iterations - iteration, 2, Len(ai.tool_calls) - callIdx + 2>>
    ELSE <<max_iterations - iteration, 3, 0>>

\* lexicographic order on triples of naturals
LexLess(r, t) ==
    \/ r[1] < t[1]
    \/ r[1] = t[1] /\ r[2] < t[2]
    \/ r[1] = t[1] /\ r[2] = t[2] /\ r[3] < t[3]

\* C35: the loop terminates: as long as it has not ended a step is possible,
\* and every step brings it nearer to its end in a well-founded order.
C35_LoopTerminates ==
    /\ [](~Ended => ENABLED NextLoop)
    /\ [][/\ LexLess(LoopRank', LoopRank)
          /\ \A k \in 1..3 : LoopRank'[k] >= 0]_vars

\* the longest run: every round used, every call dispatched, a text returned
C35_Witness ==
    /\ lpc = "returned"
    /\ iteration = max_iterations /\ iteration = MaxIter
    /\ dispatches = MaxIter * MaxCalls

\* ---------------------------------------------------------------------
\* Further claims about the healing orchestrator
\* ---------------------------------------------------------------------

\* C13: heal_container and get_health_status never raise to the
\* orchestrator: the orchestrator is never left in a state where one of
\* the two calls ended with an exception instead of a result.
C13_NoRaiseToOrchestrator == opc \notin {"raised_health", "raised_heal"}

\* the alert step has just completed and appended its entry
AlertReturned == opc = "alert" /\ Len(alerts') = Len(alerts) + 1

\* C14: the notifier never throws: every send_container_down_alert call
\* returns to the orchestrator, which moves on, and the result it returns
\* is send_email_alert's: success false with an error when the message
\* was not delivered, success true when it was.
C14_NotifierNeverThrows ==
    [][(opc = "alert" /\ opc' # "stopped") =>
          /\ opc' \in {"diag", "sleep", "done"}
          /\ AlertReturned
          /\ LET a == alerts'[Len(alerts')]
             IN  /\ (a.emails = 1 /\ ~a.delivered) =>
                        (~a.result.success /\ a.result.error # "<none>")
                 /\ (a.emails = 1 /\ a.delivered) => a.result.success]_vars

\* an alert whose delivery failed was reported as a failure, and the
\* orchestrator went on to the next stopped container
C14_Witness ==
    /\ opc = "diag" /\ idx = 2
    /\ \E i \in 1..Len(alerts) :
          /\ alerts[i].emails = 1 /\ ~alerts[i].delivered
          /\ ~alerts[i].result.success /\ alerts[i].result.error = "smtp error"

\* C15: when the container does not exist at the start of healing, no
\* restart is called and the result is a failure with attempts = 0 and a
\* not-found error.
C15_NotFoundNoRestart ==
    [][(opc = "heal_lookup" /\ opc' \notin {"raised_heal", "heal_attempt", "stopped"}) =>
          /\ restartCalls' = restartCalls
          /\ healRestarts' = 0
          /\ ~heal_result'.success
          /\ heal_result'.has_attempts /\ heal_result'.attempts = 0
          /\ heal_result'.error = "Container not found"]_vars

\* healing of a container that was not found is over, with no restart call
C15_Witness ==
    /\ mode = "heal" /\ opc \in {"post", "alert"}
    /\ heal_result = NotFoundResult
    /\ healRestarts = 0

\* the status each container had when the snapshot h was taken
StatusAt(h) ==
    LET infos == h.running_containers \o h.stopped_containers
    IN  [c \in ContainerNames |->
            infos[CHOOSE i \in 1..Len(infos) : infos[i].name = c].status]

\* two snapshots with the same counts and the same running and stopped sets
SameSnapshot(h1, h2) ==
    /\ h1.total = h2.total /\ h1.running = h2.running /\ h1.stopped = h2.stopped
    /\ Range(h1.running_containers) = Range(h2.running_containers)
    /\ Range(h1.stopped_containers) = Range(h2.stopped_containers)

C19_ReportOnlySubject ==
    mode = "check" =>
        \A i \in 1..Len(alerts) : alerts[i].subject = "no healing attempted"

\* C20: over the cycles of a run no two delivered alerts have the same
\* container and the same resolution outcome.
C20_NoDuplicateAlerts ==
    \A key \in BagToSet(transmitted) : CopiesIn(key, transmitted) <= 1



\* C21: when Ctrl+C stops the continuous loop, the cycle it arrived in has
\* been finished: every stopped container of the snapshot has had its alert.
C21_InterruptFinishesCycle ==
    opc = "stopped" => Alerted(alerts) = NamesOf(health.stopped_containers)

\* restart_container_with_retry has returned to the orchestrator
HealReturned == mode = "heal" /\ opc \in {"post", "alert"}

\* the attempts of the incident after which the container was running
RanAfter == {k \in 1..Len(attemptLog) : attemptLog[k].outcome = "running"}

\* C23: the result is a success exactly when some attempt left the container
\* running; it then reports that attempt's number and new status running,
\* and no restart call is made after that attempt.
C23_SuccessIffRunning ==
    /\ \A k \in 1..(Len(attemptLog) - 1) : k \notin RanAfter
    /\ Len(attemptLog) <= MAX_RESTART_ATTEMPTS
    /\ HealReturned =>
          /\ heal_result.success <=> RanAfter # {}
          /\ heal_result.success =>
                /\ heal_result.has_attempts
                /\ heal_result.attempts \in RanAfter
                /\ \A k \in RanAfter : heal_result.attempts <= k
                /\ heal_result.new_status = "running"
                /\ healRestarts = heal_result.attempts

\* a container healed at its second attempt
C23_Witness ==
    /\ HealReturned
    /\ heal_result.success /\ heal_result.attempts = 2
    /\ Len(attemptLog) = 2 /\ attemptLog[1].outcome = "not_running"

\* the attempts of the incident in which restart or reload raised
RaisedAt == {k \in 1..Len(attemptLog) : attemptLog[k].outcome = "raised"}

\* C24: an adapter error in an attempt is a failed attempt, not an end: a
\* failure other than not-found is returned only after max_attempts
\* attempts, and an exhausted result records the adapter error whenever
\* some attempt raised one.
C24_AdapterErrorRetriedAndRecorded ==
    /\ (HealReturned /\ ~heal_result.success /\ heal_result # NotFoundResult)
          => Len(attemptLog) = MAX_RESTART_ATTEMPTS
    /\ (Exhausted /\ RaisedAt # {}) => heal_result.error = "exception"

\* C25: every attempt that is followed by another attempt was followed by
\* the delay first.
C25_DelayBetweenAttempts ==
    \A k \in 1..(Len(attemptLog) - 1) : attemptLog[k].slept

\* the healing of container c takes a step: its lookup or a restart call
BeginsHealing(c) == (HealLookup \/ HealAttempt) /\ Current.name = c

\* C26: while one container waits between its attempts, the healing of each
\* stopped container after it in the snapshot can begin.
C26_DelayDoesNotBlockOthers ==
    (mode = "heal" /\ opc = "heal_sleep") =>
        \A j \in (idx + 1)..Len(health.stopped_containers) :
            ENABLED BeginsHealing(health.stopped_containers[j].name)

\* the alert step has just returned a failed delivery
DeliveryFailed ==
    /\ opc = "alert" /\ opc' # "stopped"
    /\ alerts'[Len(alerts')].emails = 1
    /\ ~alerts'[Len(alerts')].delivered

\* C27: a failed delivery comes back as a result; the transport was used
\* once, the healing result and the containers stay as they were, the
\* orchestrator goes on to the next stopped container, and no restart is
\* issued for a container already alerted in the cycle.
C27_FailedDeliveryNotRetried ==
    [][/\ DeliveryFailed =>
             /\ ~alerts'[Len(alerts')].result.success
             /\ alerts'[Len(alerts')].sessions = 1
             /\ emailCalls' = emailCalls + 1
             /\ restartCalls' = restartCalls /\ status' = status
             /\ heal_result' = heal_result
             /\ IF idx < Len(health.stopped_containers)
                THEN idx' = idx + 1 /\ opc' = "diag"
                ELSE opc' \in {"sleep", "done"}
       /\ (restartCalls' # restartCalls) =>
             Current.name \notin Range(Alerted(alerts))]_vars

\* heal mode: the alert of the first container was not delivered and the
\* second container is being diagnosed
C27_Witness ==
    /\ mode = "heal" /\ opc = "diag" /\ idx = 2
    /\ Len(alerts) = 1
    /\ alerts[1].emails = 1 /\ ~alerts[1].delivered
    /\ alerts[1].sessions = 1 /\ ~alerts[1].result.success



\* C32: Ctrl+C takes effect only between two containers of the cycle (or
\* between cycles), never once the healing of a container is under way, and
\* never during a restart.
C32_NoCancelMidAttempt ==
    [][(opc # "stopped" /\ opc' = "stopped") =>
          /\ restartCalls' = restartCalls
          /\ \/ opc \in {"start", "sleep"}
             \/ opc = "diag" /\ diagStep = 0]_vars

\* the orchestrator is working on the container at idx
InIncident ==
    opc \in {"diag", "heal_lookup", "heal_attempt", "heal_sleep", "post", "alert"}

\* C33: in heal mode the containers of the stopped list are taken one after
\* another in list order: a restart is for the container at idx and happens
\* when exactly the containers before it have their alert; the alert of a
\* container is sent after its healing returned and carries that result;
\* no container is alerted, hence healed, twice in a cycle.
C33_SequentialInOrder ==
    [][mode = "heal" =>
          /\ (restartCalls' # restartCalls \/ status' # status) =>
                /\ Len(alerts) = idx - 1
                /\ \A c \in ContainerNames :
                      c # health.stopped_containers[idx].name => status'[c] = status[c]
          /\ Len(alerts') = Len(alerts) + 1 =>
                /\ opc = "alert"
                /\ heal_result.success \/ heal_result.error # "<none>"
                /\ alerts'[Len(alerts')].container = health.stopped_containers[idx].name
                /\ alerts'[Len(alerts')].success = heal_result.success
                /\ alerts'[Len(alerts')].restarts = healRestarts
          /\ Alerted(alerts') =
                SubSeq(NamesOf(health'.stopped_containers), 1, Len(alerts'))
          /\ InIncident' => Len(alerts') = idx' - 1]_vars

\* the second stopped container has had a restart, after the alert of the first
C33_Witness ==
    /\ mode = "heal" /\ opc = "heal_sleep" /\ idx = 2
    /\ healRestarts = 1
    /\ Len(alerts) = 1
    /\ alerts[1].container = health.stopped_containers[1].name

\* C36: a diagnosis call that fails leaves the orchestrator where a call
\* that returned would: at the next diagnosis call, at the heal (heal mode)
\* or at the alert of the same container, and after the health summary at
\* the end of the run.
C36_DiagnosisFailureIsolated ==
    [][diagFailed' =>
          /\ idx' = idx /\ alerts' = alerts
          /\ opc = "summary" => opc' = "done"
          /\ opc = "post" => opc' = "alert"
          /\ opc = "diag" =>
                opc' \in {"diag", IF mode = "heal" THEN "heal_lookup" ELSE "alert"}]_vars

\* heal mode: the last diagnosis call for the second stopped container
\* failed and its healing is about to start
C36_Witness ==
    /\ mode = "heal" /\ diagFailed
    /\ opc = "heal_lookup" /\ idx = 2

\* C38: once Ctrl+C has arrived no new monitoring cycle is started.
C38_InterruptStopsLoop ==
    [][interrupted => cycle_count' = cycle_count]_vars

\* ---------------------------------------------------------------------
\* The health check on its own
\* ---------------------------------------------------------------------

\* the containers of the host that carry the 'environment' label
Managed == {i \in 1..Len(host) : "environment" \in DOMAIN host[i].labels}

\* the names in a list of the snapshot
Listed(infos) == {infos[i].name : i \in 1..Len(infos)}

\* C28: in every snapshot total = running + stopped, the counts are the
\* lengths of the two lists, the lists hold exactly the containers with the
\* label, a container is in the running list iff its status is running and
\* in the stopped list otherwise, and all_healthy holds iff stopped = 0.
C28_SnapshotWellFormed ==
    opc = "health_returned" =>
        /\ health.total = health.running + health.stopped
        /\ health.running = Len(health.running_containers)
        /\ health.stopped = Len(health.stopped_containers)
        /\ health.total = Cardinality(Managed)
        /\ Listed(health.running_containers) \cup Listed(health.stopped_containers)
              = {host[i].name : i \in Managed}
        /\ \A i \in Managed :
              /\ host[i].name \in Listed(health.running_containers)
                    <=> host[i].status = "running"
              /\ host[i].name \in Listed(health.stopped_containers)
                    <=> host[i].status # "running"
        /\ \A k \in 1..Len(health.running_containers) :
              health.running_containers[k].status = "running"
        /\ \A k \in 1..Len(health.stopped_containers) :
              health.stopped_containers[k].status # "running"
        /\ health.all_healthy <=> health.stopped = 0

\* a host with a running, a paused and an unlabelled container was checked
C28_Witness ==
    /\ opc = "health_returned"
    /\ Len(host) = 3 /\ Cardinality(Managed) = 2
    /\ health.running = 1 /\ health.stopped = 1
    /\ health.stopped_containers[1].status = "paused"
    /\ ~health.all_healthy


====
